---- MODULE Spec2Model ----
(***************************************************************************)
(* A model of wb.py, the notebook workbench: the scalar literal codec, the *)
(* property path accessor, the text ("scratchpad") and document            *)
(* ("synapse") notebook formats, and the push / pull orchestrator acting   *)
(* on a file system.                                                       *)
(*                                                                         *)
(* Representation.  A Python str is a sequence of one-character strings.   *)
(* Every other Python value is a record [k |-> kind, v |-> payload]:       *)
(*   k = "str"   v = the characters                                        *)
(*   k = "int"   v = the integer                                           *)
(*   k = "float" v = the characters of the float's repr                    *)
(*   k = "none"  v = <<>>                                                  *)
(*   k = "map"   v = a function from keys (character sequences) to values  *)
(*   k = "list"  v = a sequence of values                                  *)
(*   k = "raise" v = <<name of the exception>>  (an operator's outcome)    *)
(* A JSON file is held as the tree json.load returns; json.dump followed   *)
(* by json.load is the identity on these trees.                            *)
(***************************************************************************)
EXTENDS Integers, Sequences, FiniteSets, TLC

VARIABLES fs, pre, last, call

vars == <<fs, pre, last, call>>

NL == "\n"
DQ == "\""
BS == "\\"
SP == " "

PyStr(s) == [k |-> "str", v |-> s]
PyInt(n) == [k |-> "int", v |-> n]
PyFloat(r) == [k |-> "float", v |-> r]
PyNone == [k |-> "none", v |-> <<>>]
PyDict(f) == [k |-> "map", v |-> f]
PyList(l) == [k |-> "list", v |-> l]
Raise(e) == [k |-> "raise", v |-> <<e>>]
IsRaise(x) == x.k = "raise"
EmptyDict == PyDict(<<>>)

(***************************************************************************)
(* Python str methods, on character sequences.                             *)
(***************************************************************************)
Min(a, b) == IF a < b THEN a ELSE b
Max(a, b) == IF a > b THEN a ELSE b

\* s[a:b] with Python's treatment of negative and out-of-range indices
PySlice(s, a, b) ==
  LET n == Len(s)
      lo == Min(IF a < 0 THEN Max(n + a, 0) ELSE a, n)
      hi == Min(IF b < 0 THEN Max(n + b, 0) ELSE b, n)
  IN IF lo >= hi THEN <<>> ELSE SubSeq(s, lo + 1, hi)

\* s[a:]
PyFrom(s, a) == PySlice(s, a, Len(s))

StartsWith(s, p) == Len(s) >= Len(p) /\ SubSeq(s, 1, Len(p)) = p
EndsWith(s, p) == Len(s) >= Len(p) /\ SubSeq(s, Len(s) - Len(p) + 1, Len(s)) = p

RECURSIVE FindAt(_, _, _)
\* the 0-based index of the first c at 1-based position i or later, or -1
FindAt(s, c, i) ==
  IF i > Len(s) THEN -1 ELSE IF s[i] = c THEN i - 1 ELSE FindAt(s, c, i + 1)

\* s.find(c, from): the 0-based index of the first c at or after from, or -1
Find(s, c, from) == FindAt(s, c, Max(from, 0) + 1)

Contains(s, c) == \E i \in 1..Len(s) : s[i] = c

RECURSIVE Split(_, _)
\* s.split(c) for a one-character separator
Split(s, c) ==
  LET i == Find(s, c, 0)
  IN IF i = -1 THEN <<s>>
     ELSE <<PySlice(s, 0, i)>> \o Split(PyFrom(s, i + 1), c)

RECURSIVE Join(_, _)
\* sep.join(parts)
Join(parts, sep) ==
  IF parts = <<>> THEN <<>>
  ELSE IF Len(parts) = 1 THEN parts[1]
  ELSE parts[1] \o sep \o Join(Tail(parts), sep)

RECURSIVE Replace(_, _, _)
\* s.replace(old, new): leftmost non-overlapping occurrences, old non-empty
Replace(s, old, new) ==
  IF Len(s) < Len(old) THEN s
  ELSE IF StartsWith(s, old) THEN new \o Replace(PyFrom(s, Len(old)), old, new)
  ELSE <<s[1]>> \o Replace(Tail(s), old, new)

RECURSIVE LStrip(_, _)
LStrip(s, chars) ==
  IF s # <<>> /\ s[1] \in chars THEN LStrip(Tail(s), chars) ELSE s

RECURSIVE RStrip(_, _)
RStrip(s, chars) ==
  IF s # <<>> /\ s[Len(s)] \in chars THEN RStrip(SubSeq(s, 1, Len(s) - 1), chars) ELSE s

Strip(s, chars) == LStrip(RStrip(s, chars), chars)

\* the characters str.strip() with no argument removes
Whitespace == {" ", "\n", "\t", "\r", "\f"}

UpperToLower ==
  [c \in {"A","B","C","D","E","F","G","H","I","J","K","L","M","N","O","P","Q",
          "R","S","T","U","V","W","X","Y","Z"} |->
     CASE c = "A" -> "a" [] c = "B" -> "b" [] c = "C" -> "c" [] c = "D" -> "d"
       [] c = "E" -> "e" [] c = "F" -> "f" [] c = "G" -> "g" [] c = "H" -> "h"
       [] c = "I" -> "i" [] c = "J" -> "j" [] c = "K" -> "k" [] c = "L" -> "l"
       [] c = "M" -> "m" [] c = "N" -> "n" [] c = "O" -> "o" [] c = "P" -> "p"
       [] c = "Q" -> "q" [] c = "R" -> "r" [] c = "S" -> "s" [] c = "T" -> "t"
       [] c = "U" -> "u" [] c = "V" -> "v" [] c = "W" -> "w" [] c = "X" -> "x"
       [] c = "Y" -> "y" [] c = "Z" -> "z"]

\* s.lower()
Lower(s) == [i \in 1..Len(s) |-> IF s[i] \in DOMAIN UpperToLower THEN UpperToLower[s[i]] ELSE s[i]]

(***************************************************************************)
(* int(), float() and str() on the values the codec meets.                 *)
(***************************************************************************)
Digits == {"0","1","2","3","4","5","6","7","8","9"}

DigitVal(c) ==
  CASE c = "0" -> 0 [] c = "1" -> 1 [] c = "2" -> 2 [] c = "3" -> 3 [] c = "4" -> 4
    [] c = "5" -> 5 [] c = "6" -> 6 [] c = "7" -> 7 [] c = "8" -> 8 [] c = "9" -> 9

DigitChar(d) == <<"0","1","2","3","4","5","6","7","8","9">>[d + 1]

AllDigits(s) == s # <<>> /\ \A i \in 1..Len(s) : s[i] \in Digits

RECURSIVE DigitsVal(_)
DigitsVal(s) == IF s = <<>> THEN 0 ELSE 10 * DigitsVal(SubSeq(s, 1, Len(s) - 1)) + DigitVal(s[Len(s)])

RECURSIVE NatStr(_)
NatStr(n) == IF n < 10 THEN <<DigitChar(n)>> ELSE NatStr(n \div 10) \o <<DigitChar(n % 10)>>

\* str(n) for an int
IntStr(n) == IF n < 0 THEN <<"-">> \o NatStr(-n) ELSE NatStr(n)

\* the sign and the unsigned rest of a stripped numeric literal
Signed(s) ==
  LET t == Strip(s, Whitespace)
  IN IF t # <<>> /\ t[1] \in {"+", "-"}
     THEN [neg |-> t[1] = "-", body |-> Tail(t)]
     ELSE [neg |-> FALSE, body |-> t]

\* int(s) accepts s: surrounding whitespace, one optional sign, decimal digits
IsIntLiteral(s) == AllDigits(Signed(s).body)

IntOf(s) == IF Signed(s).neg THEN -DigitsVal(Signed(s).body) ELSE DigitsVal(Signed(s).body)

\* float(s) accepts s: digits with at most one point and at least one digit,
\* or inf / infinity / nan in any case (no exponent form: the model's texts
\* hold no digit followed by e)
IsFloatLiteral(s) ==
  LET b == Signed(s).body
      parts == Split(b, ".")
      ds(p) == p = <<>> \/ AllDigits(p)
  IN \/ Lower(b) \in {<<"i","n","f">>, <<"n","a","n">>, <<"i","n","f","i","n","i","t","y">>}
     \/ /\ Len(parts) \in {1, 2}
        /\ \A i \in 1..Len(parts) : ds(parts[i])
        /\ \E i \in 1..Len(parts) : parts[i] # <<>>

\* repr of float(s), the text json.dump and str() give for it
FloatRepr(s) ==
  LET b == Signed(s).body
      sign == IF Signed(s).neg THEN <<"-">> ELSE <<>>
      parts == Split(b, ".")
      ip == LStrip(parts[1], {"0"})
      fp == IF Len(parts) = 2 THEN RStrip(parts[2], {"0"}) ELSE <<>>
  IN IF Lower(b) = <<"n","a","n">> THEN <<"n","a","n">>
     ELSE IF Lower(b) \in {<<"i","n","f">>, <<"i","n","f","i","n","i","t","y">>}
          THEN sign \o <<"i","n","f">>
     ELSE sign \o (IF ip = <<>> THEN <<"0">> ELSE ip) \o <<".">>
               \o (IF fp = <<>> THEN <<"0">> ELSE fp)

\* str(value) for the values that are not str
PyStrOf(value) ==
  CASE value.k = "int" -> IntStr(value.v)
    [] value.k = "float" -> value.v
    [] value.k = "none" -> <<"N","o","n","e">>
    [] value.k = "str" -> value.v

(***************************************************************************)
(* The scalar literal codec.                                               *)
(***************************************************************************)
\* value_str: a str is quoted with backslashes doubled and then quotes
\* escaped; anything else is str(value)
value_str(value) ==
  IF value.k = "str"
  THEN <<DQ>> \o Replace(Replace(value.v, <<BS>>, <<BS, BS>>), <<DQ>>, <<BS, DQ>>) \o <<DQ>>
  ELSE PyStrOf(value)

\* parse_value: the quoted branch strips every leading and trailing quote,
\* replaces each quote by backslash-quote and then each doubled backslash by
\* one; otherwise int, then float, then None
parse_value(text) ==
  IF StartsWith(text, <<DQ>>) /\ EndsWith(text, <<DQ>>)
  THEN PyStr(Replace(Replace(Strip(text, {DQ}), <<DQ>>, <<BS, DQ>>), <<BS, BS>>, <<BS>>))
  ELSE IF IsIntLiteral(text) THEN PyInt(IntOf(text))
  ELSE IF IsFloatLiteral(text) THEN PyFloat(FloatRepr(text))
  ELSE PyNone

(***************************************************************************)
(* The property path accessor.                                             *)
(***************************************************************************)
DOT == "."

HasKey(d, key) == key \in DOMAIN d.v

\* d[key] = value on a dict
DictSet(d, key, value) ==
  PyDict([x \in (DOMAIN d.v) \cup {key} |-> IF x = key THEN value ELSE d.v[x]])

RECURSIVE GetWalk(_, _)
GetWalk(value, parts) ==
  IF parts = <<>>
  THEN IF value.k \in {"int", "float", "str"} THEN value ELSE PyNone
  ELSE IF value.k # "map" THEN PyNone
  ELSE IF ~HasKey(value, Head(parts)) THEN PyNone
  ELSE GetWalk(value.v[Head(parts)], Tail(parts))

\* get_property_by_path
get_property_by_path(o, path) == GetWalk(o, Split(path, DOT))

RECURSIVE SetWalk(_, _, _)
\* the loop of set_property_value from dict_sect on: a non-dict dict_sect
\* makes the item assignment raise TypeError, a dict without the part makes
\* the descent raise KeyError; the last part is assigned
SetWalk(dict_sect, parts, value) ==
  IF Len(parts) = 1
  THEN IF dict_sect.k = "map" THEN DictSet(dict_sect, parts[1], value)
       ELSE Raise("TypeError")
  ELSE IF dict_sect.k # "map" THEN Raise("TypeError")
  ELSE IF ~HasKey(dict_sect, Head(parts)) THEN Raise("KeyError")
  ELSE LET sub == SetWalk(dict_sect.v[Head(parts)], Tail(parts), value)
       IN IF IsRaise(sub) THEN sub ELSE DictSet(dict_sect, Head(parts), sub)

\* set_property_value: obj after the call, or the exception it raises
set_property_value(obj, path, value) == SetWalk(obj, Split(path, DOT), value)

(***************************************************************************)
(* The canonical model.  properties is a Python dict in insertion order:   *)
(* a sequence of <<key, value>> pairs with distinct keys.                  *)
(***************************************************************************)
NotebookCellData(cell_type, contents, attributes) ==
  [k |-> "cell", cell_type |-> cell_type, contents |-> contents, attributes |-> attributes]

NotebookData(name, properties, cells) ==
  [k |-> "nb", name |-> name, properties |-> properties, cells |-> cells]

\* properties[key] = value: a present key keeps its place
PropSet(props, key, value) ==
  IF \E i \in 1..Len(props) : props[i][1] = key
  THEN [i \in 1..Len(props) |-> IF props[i][1] = key THEN <<key, value>> ELSE props[i]]
  ELSE Append(props, <<key, value>>)

\* character sequences for the names the code spells out
K_name == <<"n","a","m","e">>
K_properties == <<"p","r","o","p","e","r","t","i","e","s">>
K_cells == <<"c","e","l","l","s">>
K_cell_type == <<"c","e","l","l","_","t","y","p","e">>
K_source == <<"s","o","u","r","c","e">>
K_metadata == <<"m","e","t","a","d","a","t","a">>
K_tags == <<"t","a","g","s">>
K_execution_count == <<"e","x","e","c","u","t","i","o","n","_","c","o","u","n","t">>
K_folder == <<"f","o","l","d","e","r">>
K_nbformat == <<"n","b","f","o","r","m","a","t">>
K_nbformat_minor == <<"n","b","f","o","r","m","a","t","_","m","i","n","o","r">>
K_language == <<"l","a","n","g","u","a","g","e">>
K_language_info == <<"l","a","n","g","u","a","g","e","_","i","n","f","o">>
W_cell == <<"c","e","l","l">>
W_meta == <<"m","e","t","a">>

\* SynapseNotebookFormat.meta_properties, in its order
meta_properties ==
  << <<K_folder, K_folder \o <<DOT>> \o K_name>>,
     <<K_nbformat, K_nbformat>>,
     <<K_nbformat_minor, K_nbformat_minor>>,
     <<K_language, K_metadata \o <<DOT>> \o K_language_info \o <<DOT>> \o K_name>> >>

\* meta_properties.get(prop_name, None): the path, or <<>> for None
MetaPath(prop_name) ==
  IF \E i \in 1..Len(meta_properties) : meta_properties[i][1] = prop_name
  THEN meta_properties[CHOOSE i \in 1..Len(meta_properties) : meta_properties[i][1] = prop_name][2]
  ELSE <<>>

(***************************************************************************)
(* ScratchpadNotebookFormat: the text format.                              *)
(***************************************************************************)
\* line[1:line.find(' ')].lower()
Directive(line) == Lower(PySlice(line, 1, Find(line, SP, 0)))

RECURSIVE TagList(_)
\* [t.strip() for t in pieces if t.strip()]
TagList(pieces) ==
  IF pieces = <<>> THEN <<>>
  ELSE LET t == Strip(Head(pieces), Whitespace)
       IN (IF t = <<>> THEN <<>> ELSE <<PyStr(t)>>) \o TagList(Tail(pieces))

\* the cell a @cell line opens
CellOfLine(line) ==
  LET cell_def == Strip(PyFrom(line, 6), Whitespace)
      cell_type == Split(cell_def, SP)[1]
      tag_part == PySlice(cell_def, Find(cell_def, "[", 0), Find(cell_def, "]", 0) + 1)
      tags == IF Contains(cell_def, "[")
              THEN TagList(Split(PySlice(tag_part, 1, -1), ","))
              ELSE <<>>
  IN NotebookCellData(PyStr(cell_type), <<>>, PyList(tags))

\* the key and the parsed value of a @meta line
MetaOfLine(line) ==
  LET sp1 == Find(line, SP, 0)
      sp2 == Find(line, SP, sp1 + 1)
  IN [prop_name |-> PySlice(line, sp1 + 1, sp2),
      parsed_value |-> parse_value(PyFrom(line, sp2 + 1))]

\* ReadLine with every line that begins with @ consumed: an unrecognized
\* directive line is dropped instead of falling through to the open cell
ReadLine_drop(nb, line) ==
  IF StartsWith(line, <<"@">>) /\ Directive(line) = W_cell
  THEN [nb EXCEPT !.cells = Append(@, CellOfLine(line))]
  ELSE IF StartsWith(line, <<"@">>) /\ Directive(line) = W_meta
  THEN LET m == MetaOfLine(line)
       IN IF m.prop_name = K_name
          THEN [nb EXCEPT !.name = m.parsed_value]
          ELSE [nb EXCEPT !.properties = PropSet(@, m.prop_name, m.parsed_value)]
  ELSE IF nb.cells # <<>> /\ ~StartsWith(line, <<"@">>)
  THEN [nb EXCEPT !.cells[Len(nb.cells)].contents = @ \o line \o <<NL>>]
  ELSE nb

\* one pass of the loop body over a line; current_cell is the last of cells
ReadLine(nb, line) ==
  IF StartsWith(line, <<"@">>) /\ Directive(line) = W_cell
  THEN [nb EXCEPT !.cells = Append(@, CellOfLine(line))]
  ELSE IF StartsWith(line, <<"@">>) /\ Directive(line) = W_meta
  THEN LET m == MetaOfLine(line)
       IN IF m.prop_name = K_name
          THEN [nb EXCEPT !.name = m.parsed_value]
          ELSE [nb EXCEPT !.properties = PropSet(@, m.prop_name, m.parsed_value)]
  ELSE IF nb.cells # <<>>
  THEN [nb EXCEPT !.cells[Len(nb.cells)].contents = @ \o line \o <<NL>>]
  ELSE nb

RECURSIVE ReadLines(_, _)
ReadLines(nb, lines) ==
  IF lines = <<>> THEN nb ELSE ReadLines(ReadLine(nb, Head(lines)), Tail(lines))

\* ScratchpadNotebookFormat.read_file on the file's content
ScratchRead(file_content) ==
  ReadLines(NotebookData(PyStr(<<>>), <<>>, <<>>), Split(file_content, NL))

RECURSIVE MetaLines(_)
MetaLines(props) ==
  IF props = <<>> THEN <<>>
  ELSE <<"@">> \o W_meta \o <<SP>> \o Head(props)[1] \o <<SP>> \o value_str(Head(props)[2])
       \o <<NL>> \o MetaLines(Tail(props))

\* ','.join(cell.attributes)
TagText(attributes) == Join([i \in 1..Len(attributes.v) |-> attributes.v[i].v], <<",">>)

RECURSIVE CellLines(_)
CellLines(cells) ==
  IF cells = <<>> THEN <<>>
  ELSE LET cell == Head(cells)
           attribute_str == IF Len(cell.attributes.v) # 0
                            THEN <<SP, "[">> \o TagText(cell.attributes) \o <<"]">>
                            ELSE <<>>
       IN <<"@">> \o W_cell \o <<SP>> \o PyStrOf(cell.cell_type) \o attribute_str \o <<NL>>
          \o cell.contents \o <<NL>> \o CellLines(Tail(cells))

\* ScratchWrite with an absent name written as the empty string
ScratchWrite_fallback(nb_data) ==
  <<"@">> \o W_meta \o <<SP>> \o K_name \o <<SP>>
  \o value_str(IF nb_data.name = PyNone THEN PyStr(<<>>) ELSE nb_data.name) \o <<NL>>
  \o MetaLines(nb_data.properties) \o CellLines(nb_data.cells)

\* ScratchpadNotebookFormat.write_file: the text written
ScratchWrite(nb_data) ==
  <<"@">> \o W_meta \o <<SP>> \o K_name \o <<SP>> \o value_str(nb_data.name) \o <<NL>>
  \o MetaLines(nb_data.properties) \o CellLines(nb_data.cells)

(***************************************************************************)
(* SynapseNotebookFormat: the document format.                             *)
(***************************************************************************)
\* d.get(key, default) on a dict
DictGet(d, key, default) == IF HasKey(d, key) THEN d.v[key] ELSE default

RECURSIVE SourceContents_raw(_)
\* SourceContents without the rstrip: a newline is added to each line as it is
SourceContents_raw(source) ==
  IF source = <<>> THEN <<>>
  ELSE Head(source).v \o <<NL>> \o SourceContents_raw(Tail(source))

\* "".join([line.rstrip("\n") + "\n" for line in source])
RECURSIVE SourceContents(_)
SourceContents(source) ==
  IF source = <<>> THEN <<>>
  ELSE RStrip(Head(source).v, {NL}) \o <<NL>> \o SourceContents(Tail(source))

\* the body of the cell loop of read_file for one cell_data
ReadCell(cell_data) ==
  IF cell_data.k # "map" THEN Raise("AttributeError")
  ELSE IF DictGet(cell_data, K_metadata, EmptyDict).k # "map" THEN Raise("AttributeError")
  ELSE IF ~HasKey(cell_data, K_source) THEN Raise("KeyError")
  ELSE IF cell_data.v[K_source].k # "list" THEN Raise("TypeError")
  ELSE IF \E i \in 1..Len(cell_data.v[K_source].v) : cell_data.v[K_source].v[i].k # "str"
  THEN Raise("AttributeError")
  ELSE NotebookCellData(DictGet(cell_data, K_cell_type, PyNone),
                        SourceContents(cell_data.v[K_source].v),
                        DictGet(DictGet(cell_data, K_metadata, EmptyDict), K_tags, PyList(<<>>)))

\* SynapseNotebookFormat.read_file on the loaded tree: the canonical model,
\* or the exception raised
SynapseRead(file_data) ==
  IF file_data.k # "map" THEN Raise("AttributeError")
  ELSE
    LET name == DictGet(file_data, K_name, PyNone)
        properties_obj == DictGet(file_data, K_properties, PyNone)
        properties == [i \in 1..Len(meta_properties) |->
                         <<meta_properties[i][1],
                           get_property_by_path(properties_obj, meta_properties[i][2])>>]
        cell_list == IF properties_obj.k = "map"
                     THEN DictGet(properties_obj, K_cells, PyNone) ELSE PyNone
        cells == [i \in 1..Len(cell_list.v) |-> ReadCell(cell_list.v[i])]
    IN IF properties_obj.k # "map" THEN Raise("AttributeError")
       ELSE IF cell_list.k # "list" THEN Raise("TypeError")
       ELSE IF \E i \in 1..Len(cells) : IsRaise(cells[i])
       THEN cells[CHOOSE i \in 1..Len(cells) :
                    IsRaise(cells[i]) /\ \A j \in 1..(i - 1) : ~IsRaise(cells[j])]
       ELSE NotebookData(name, properties, cells)

\* the dict write_file builds for one cell
WriteCell(cell) ==
  LET lines == Split(RStrip(cell.contents, {" ", "\n", "\t", "\r"}), NL)
      cell_content_lines == PyList([i \in 1..Len(lines) |-> PyStr(lines[i] \o <<NL>>)])
      base == (K_cell_type :> cell.cell_type) @@ (K_source :> cell_content_lines)
              @@ (K_execution_count :> PyInt(0))
  IN PyDict(IF Len(cell.attributes.v) > 0 THEN base @@ (K_tags :> cell.attributes) ELSE base)

RECURSIVE SetMeta(_, _)
\* the loop over nb_data.properties: properties after it, or the exception
SetMeta(properties, props) ==
  IF props = <<>> \/ IsRaise(properties) THEN properties
  ELSE SetMeta(IF MetaPath(Head(props)[1]) # <<>>
               THEN set_property_value(properties, MetaPath(Head(props)[1]), Head(props)[2])
               ELSE properties,
               Tail(props))

\* _get_detault_notebook_data(): the name is defined nowhere in the module
DefaultNotebookData == Raise("NameError")

\* WriteInto with the new cells added to the cells the document has
WriteInto_append(file_data, nb_data) ==
  LET named == IF IsRaise(file_data) THEN file_data
               ELSE set_property_value(file_data, K_name, nb_data.name)
      properties == IF IsRaise(named) THEN named
                    ELSE SetMeta(DictGet(named, K_properties, EmptyDict), nb_data.properties)
      old == IF ~IsRaise(properties) /\ properties.k = "map"
                /\ DictGet(properties, K_cells, PyNone).k = "list"
             THEN properties.v[K_cells].v ELSE <<>>
      cells == PyList(old \o [i \in 1..Len(nb_data.cells) |-> WriteCell(nb_data.cells[i])])
      with_cells == IF IsRaise(properties) THEN properties
                    ELSE set_property_value(properties, K_cells, cells)
  IN IF IsRaise(with_cells) THEN with_cells
     ELSE set_property_value(named, K_properties, with_cells)

\* write_file from set_property_value(file_data, 'name', ...) to the last
\* set_property_value: the tree that is dumped, or the exception raised
WriteInto(file_data, nb_data) ==
  LET named == IF IsRaise(file_data) THEN file_data
               ELSE set_property_value(file_data, K_name, nb_data.name)
      properties == IF IsRaise(named) THEN named
                    ELSE SetMeta(DictGet(named, K_properties, EmptyDict), nb_data.properties)
      cells == PyList([i \in 1..Len(nb_data.cells) |-> WriteCell(nb_data.cells[i])])
      with_cells == IF IsRaise(properties) THEN properties
                    ELSE set_property_value(properties, K_cells, cells)
  IN IF IsRaise(with_cells) THEN with_cells
     ELSE set_property_value(named, K_properties, with_cells)

\* SynapseWrite that builds the document anew instead of loading the
\* destination
SynapseWrite_fresh(exists, loaded, nb_data) ==
  WriteInto(IF exists THEN EmptyDict ELSE DefaultNotebookData, nb_data)

\* SynapseNotebookFormat.write_file up to the open for writing: every
\* exception is raised before the file is opened.  loaded is the
\* destination's tree when it exists
SynapseWrite(exists, loaded, nb_data) ==
  WriteInto(IF exists THEN loaded ELSE DefaultNotebookData, nb_data)

(***************************************************************************)
(* Paths and the file system.  A path is the sequence of its components;   *)
(* an absolute path starts with the component "/".  fs maps the absolute   *)
(* path of every existing file to its content: [type |-> "text", data |->  *)
(* characters] or [type |-> "json", data |-> tree].                        *)
(***************************************************************************)
\* os.getcwd()
Cwd == <<"/", "w">>

IsAbs(path) == path # <<>> /\ path[1] = "/"

\* os.path.join(cwd, path)
PathJoin(cwd, path) == IF IsAbs(path) THEN path ELSE cwd \o path

RECURSIVE NormWalk(_, _)
\* os.path.normpath on an absolute path: done holds the components kept so far
NormWalk(done, rest) ==
  IF rest = <<>> THEN done
  ELSE IF Head(rest) = "." THEN NormWalk(done, Tail(rest))
  ELSE IF Head(rest) = ".."
  THEN NormWalk(IF Len(done) > 1 THEN SubSeq(done, 1, Len(done) - 1) ELSE done, Tail(rest))
  ELSE NormWalk(Append(done, Head(rest)), Tail(rest))

\* to_abs_path without os.path.abspath: the joined path is not normalized
to_abs_path_joined(path) == PathJoin(Cwd, path)

\* to_abs_path
to_abs_path(path) == NormWalk(<<"/">>, Tail(PathJoin(Cwd, path)))

\* os.path.exists
Exists(files, path) == path \in DOMAIN files

TextFile(content) == [type |-> "text", data |-> content]
JsonFile(tree) == [type |-> "json", data |-> tree]

\* open(path, 'w') and the write: the file is created or replaced
WriteFile(files, path, file) ==
  [x \in (DOMAIN files) \cup {path} |-> IF x = path THEN file ELSE files[x]]

\* what a call left behind: its arguments and how it ended.  error is "" for
\* a normal return; message is the path a WorkbenchError cites
Outcome(op, location, src, error, message) ==
  [op |-> op, location |-> location, src |-> src, error |-> error, message |-> message]

\* push_notebook(location, src): the file system and the outcome after it
push_notebook(files, location, src) ==
  LET loc == to_abs_path(location)
      dst == to_abs_path(src)
      nb_data == ScratchRead(files[loc].data)
      tree == SynapseWrite(Exists(files, dst),
                           IF Exists(files, dst) THEN files[dst].data ELSE PyNone,
                           nb_data)
  IN IF ~Exists(files, loc)
     THEN [fs |-> files, out |-> Outcome("push", location, src, "WorkbenchError", loc)]
     ELSE IF IsRaise(tree)
     THEN [fs |-> files, out |-> Outcome("push", location, src, tree.v[1], <<>>)]
     ELSE [fs |-> WriteFile(files, dst, JsonFile(tree)),
           out |-> Outcome("push", location, src, "", <<>>)]

\* pull_notebook(location, src)
pull_notebook(files, location, src) ==
  LET dst == to_abs_path(src)
      loc == to_abs_path(location)
      nb_data == SynapseRead(files[dst].data)
  IN IF ~Exists(files, dst)
     THEN [fs |-> files, out |-> Outcome("pull", location, src, "WorkbenchError", dst)]
     ELSE IF IsRaise(nb_data)
     THEN [fs |-> files, out |-> Outcome("pull", location, src, nb_data.v[1], <<>>)]
     ELSE [fs |-> WriteFile(files, loc, TextFile(ScratchWrite(nb_data))),
           out |-> Outcome("pull", location, src, "", <<>>)]

(***************************************************************************)
(* The files the model starts from.                                        *)
(***************************************************************************)
RECURSIVE SeqsUpTo(_, _)
\* the sequences over S of length at most n
SeqsUpTo(S, n) ==
  IF n = 0 THEN {<<>>}
  ELSE LET shorter == SeqsUpTo(S, n - 1)
       IN shorter \cup {Append(q, x) : q \in {r \in shorter : Len(r) = n - 1}, x \in S}

S_nb == <<"n","b">>
S_f == <<"f">>
S_py == <<"p","y">>
S_code == <<"c","o","d","e">>
S_md == <<"m","d">>
S_a == <<"a">>
S_b == <<"b">>
S_x_nl == <<"x", NL>>
S_nl == <<NL>>
S_t == <<"#",SP,"t">>
K_custom == <<"c","u","s","t","o","m">>
K_id == <<"i","d">>
K_kernel == <<"k","e","r","n","e","l">>
K_outputs == <<"o","u","t","p","u","t","s">>

\* blocks of lines a text file is put together from
B_full == <<"@","m","e","t","a",SP,"n","a","m","e",SP,DQ,"n","b",DQ,NL,"@","m","e","t","a",SP,"f","o","l","d","e","r",SP,DQ,"f",DQ,NL,"@","m","e","t","a",SP,"n","b","f","o","r","m","a","t",SP,"4",NL,"@","m","e","t","a",SP,"n","b","f","o","r","m","a","t","_","m","i","n","o","r",SP,"2",NL,"@","m","e","t","a",SP,"l","a","n","g","u","a","g","e",SP,DQ,"p","y",DQ,NL,"@","c","e","l","l",SP,"c","o","d","e",SP,"[","a",",",SP,"b",",",SP,"]",NL,"x",SP,"=",SP,"1",NL,"@","f","o","o",SP,"b","a","r",NL>>
B_custom == <<"@","m","e","t","a",SP,"c","u","s","t","o","m",SP,"1",NL,"@","m","e","t","a",SP,"n","b","f","o","r","m","a","t",SP,"a","b","c",NL,"@","C","E","L","L",SP,"m","d",NL,"#",SP,"t">>
B_format == <<"@","m","e","t","a",SP,"n","b","f","o","r","m","a","t",SP,"4",NL,"@","c","e","l","l",SP,"m","d",NL,"#",SP,"t",NL,"@","c","e","l","l",SP,"c","o","d","e",SP,"[","a","]">>
B_name == <<"@","m","e","t","a",SP,"n","a","m","e",SP,DQ,"n","b",DQ>>
B_cells == <<"x",NL,"@","c","e","l","l",SP,"c","o","d","e",SP,"[","a","]",NL,"x",NL,NL,"@","c","e","l","l",SP,"m","d">>

TextBlocks == {B_full, B_custom, B_format, B_name, B_cells}

MaxBlocks == 1

Texts == {Join(q, <<NL>>) : q \in SeqsUpTo(TextBlocks, MaxBlocks)}

\* cells of a document: tags where read_file looks for them, tags where
\* write_file puts them, and no tags
C_meta_tags ==
  PyDict((K_cell_type :> PyStr(S_code))
         @@ (K_source :> PyList(<<PyStr(S_x_nl), PyStr(S_nl), PyStr(S_nl)>>))
         @@ (K_metadata :> PyDict(K_tags :> PyList(<<PyStr(S_a)>>)))
         @@ (K_execution_count :> PyInt(3))
         @@ (K_outputs :> PyList(<<>>)))
C_top_tags ==
  PyDict((K_cell_type :> PyStr(S_code))
         @@ (K_source :> PyList(<<PyStr(S_x_nl)>>))
         @@ (K_tags :> PyList(<<PyStr(S_a), PyStr(S_b)>>))
         @@ (K_execution_count :> PyInt(0)))
C_plain ==
  PyDict((K_cell_type :> PyStr(S_md)) @@ (K_source :> PyList(<<PyStr(S_t)>>)))

DocCells == {C_meta_tags, C_top_tags, C_plain}

MaxCells == 1

\* a document with all four recognized metadata paths set and fields of its own
FullDoc(name, cells) ==
  PyDict((K_name :> name)
         @@ (K_custom :> PyInt(1))
         @@ (K_properties :> PyDict(
               (K_folder :> PyDict((K_name :> PyStr(S_f)) @@ (K_id :> PyInt(7))))
               @@ (K_nbformat :> PyInt(4))
               @@ (K_nbformat_minor :> PyInt(2))
               @@ (K_metadata :> PyDict((K_language_info :> PyDict(K_name :> PyStr(S_py)))
                                        @@ (K_kernel :> PyInt(1))))
               @@ (K_cells :> PyList(cells)))))

\* documents that lack what the formats reach for
D_skeleton == PyDict(K_properties :> PyDict(K_cells :> PyList(<<>>)))
D_no_folder ==
  PyDict((K_name :> PyStr(S_nb))
         @@ (K_properties :> PyDict((K_nbformat :> PyInt(4)) @@ (K_cells :> PyList(<<C_top_tags>>)))))
D_str_folder ==
  PyDict((K_custom :> PyInt(1))
         @@ (K_properties :> PyDict((K_folder :> PyStr(S_f)) @@ (K_cells :> PyList(<<>>)))))
D_no_properties == PyDict((K_name :> PyStr(S_nb)) @@ (K_custom :> PyInt(1)))
D_int_properties == PyDict(K_properties :> PyInt(5))
D_no_cells == PyDict(K_properties :> PyDict(K_nbformat :> PyInt(4)))
D_list == PyList(<<>>)
D_no_source ==
  PyDict(K_properties :> PyDict(K_cells :> PyList(<<PyDict(K_cell_type :> PyStr(S_code))>>)))
D_quote_name == FullDoc(PyStr(<<"a", DQ, "b">>), <<>>)
D_no_name == [FullDoc(PyNone, <<C_top_tags>>) EXCEPT !.v = [x \in (DOMAIN @) \ {K_name} |-> @[x]]]

EdgeDocs == {D_skeleton, D_no_folder, D_str_folder, D_no_properties, D_int_properties,
             D_no_cells, D_list, D_no_source, D_quote_name, D_no_name}

Docs == EdgeDocs \cup {FullDoc(PyStr(S_nb), cells) : cells \in SeqsUpTo(DocCells, MaxCells)}

\* the arguments of the calls: location names a text file, src a document
P_text == <<"/", "w", "n.txt">>
P_doc == <<"/", "w", "d.json">>
LocationArgs == {<<"..", "w", "n.txt">>}
SrcArgs == {<<".", "d.json">>, <<"/", "w", "e.json">>}

\* the longest first line a pull may write: it caps the growth of a name
\* whose quote gains a backslash on every pull and push
MaxNameLine == 20

(***************************************************************************)
(* The state machine: a file system and the calls made on it.  pre is the  *)
(* file system before the last call and last its outcome.                  *)
(***************************************************************************)
NoCall == Outcome("none", <<>>, <<>>, "", <<>>)

\* a call of one of the functions: its name, its arguments and what it gave
Called(fn, args, res) == [fn |-> fn, args |-> args, res |-> res]

Init ==
  /\ \E text \in Texts, doc \in Docs :
       \/ fs = (P_text :> TextFile(text)) @@ (P_doc :> JsonFile(doc))
       \/ fs = (P_doc :> JsonFile(doc)) /\ text = <<>>
       \/ fs = (P_text :> TextFile(text)) /\ doc = D_skeleton
  /\ pre = fs
  /\ last = NoCall
  /\ call = Called("none", <<>>, PyNone)

Push(location, src) ==
  LET r == push_notebook(fs, location, src)
  IN /\ fs' = r.fs
     /\ pre' = fs
     /\ last' = r.out
     /\ UNCHANGED call

Pull(location, src) ==
  LET r == pull_notebook(fs, location, src)
  IN /\ \A p \in DOMAIN r.fs :
          r.fs[p].type = "text" => Len(Split(r.fs[p].data, NL)[1]) <= MaxNameLine
     /\ fs' = r.fs
     /\ pre' = fs
     /\ last' = r.out
     /\ UNCHANGED call

Next ==
  \/ \E location \in LocationArgs, src \in SrcArgs : Push(location, src)
  \/ \E location \in LocationArgs, src \in SrcArgs : Pull(location, src)

Spec == Init /\ [][Next]_vars

(***************************************************************************)
(* The functions called on their own: the second specification applies     *)
(* the codec, the accessor and the two readers to inputs drawn from        *)
(* bounded sets.  Each behaviour is one call.                              *)
(***************************************************************************)
MaxLiteral == 6

Literals == SeqsUpTo({DQ, BS, "a"}, MaxLiteral)

S_s == <<"s">>
SetTrees ==
  {EmptyDict,
   PyDict(S_a :> PyDict(S_b :> PyInt(5))),
   PyDict(S_a :> PyInt(5)),
   PyDict(S_a :> EmptyDict),
   PyDict(S_a :> PyList(<<PyInt(1)>>)),
   PyDict(S_b :> PyStr(S_s))}
SetPaths == {S_a, S_b, <<"a", DOT, "b">>, <<"a", DOT, "b", DOT, "a">>, <<"b", DOT, "a">>}
SetValues == {PyInt(7), PyStr(S_s), PyNone, EmptyDict}

R_cell == <<"@","c","e","l","l",SP,"c","o","d","e",SP,"[","a","]">>
R_name == <<"@","m","e","t","a",SP,"n","a","m","e",SP,DQ,"n",DQ>>
R_body == <<"x">>
R_blank == <<>>
R_foo == <<"@","f","o","o",SP,"b","a","r">>
R_deco == <<"@","D","e","c","o">>
R_metas == <<"@","m","e","t","a","s">>
ReadLineSet == {R_cell, R_name, R_body, R_blank, R_foo, R_deco, R_metas}

MaxReadLines == 3

SourceLineSet == {PyStr(S_x_nl), PyStr(S_nl), PyStr(<<"x">>), PyStr(<<"x", NL, NL>>)}

MaxSource == 3

\* a document whose first cell has the given source lines
SourceDoc(source) ==
  PyDict(K_properties :> PyDict(K_cells :> PyList(<<
    PyDict((K_cell_type :> PyStr(S_code)) @@ (K_source :> PyList(source))),
    C_plain >>)))

CallsInit ==
  /\ fs = <<>>
  /\ pre = <<>>
  /\ last = NoCall
  /\ call = Called("none", <<>>, PyNone)

CallParseValue ==
  /\ call.fn = "none"
  /\ \E text \in Literals : call' = Called("parse_value", <<text>>, parse_value(text))
  /\ UNCHANGED <<fs, pre, last>>

CallSetPropertyValue ==
  /\ call.fn = "none"
  /\ \E obj \in SetTrees, path \in SetPaths, value \in SetValues :
       call' = Called("set_property_value", <<obj, path, value>>,
                      set_property_value(obj, path, value))
  /\ UNCHANGED <<fs, pre, last>>

CallScratchRead ==
  /\ call.fn = "none"
  /\ \E lines \in SeqsUpTo(ReadLineSet, MaxReadLines) :
       call' = Called("scratch_read", <<Join(lines, <<NL>>)>>,
                      ScratchRead(Join(lines, <<NL>>)))
  /\ UNCHANGED <<fs, pre, last>>

CallSynapseRead ==
  /\ call.fn = "none"
  /\ \E source \in SeqsUpTo(SourceLineSet, MaxSource) :
       call' = Called("synapse_read", <<SourceDoc(source)>>, SynapseRead(SourceDoc(source)))
  /\ UNCHANGED <<fs, pre, last>>

CallsNext ==
  \/ CallParseValue
  \/ CallSetPropertyValue
  \/ CallScratchRead
  \/ CallSynapseRead

Calls == CallsInit /\ [][CallsNext]_vars

(***************************************************************************)
(* The claims about the functions, checked under Calls.                    *)
(***************************************************************************)

\* C5: set(tree, path, value) never fails and upserts: for every map tree,
\* path and value it returns a tree, and get(tree, path) then gives a scalar
\* value back; set({}, "a.b", 7) gives {a: {b: 7}}.
C5_SetIsUpsert ==
  call.fn = "set_property_value" =>
    /\ ~IsRaise(call.res)
    /\ call.args[3].k \in {"int", "str"} =>
         get_property_by_path(call.res, call.args[2]) = call.args[3]
    /\ call.args = <<EmptyDict, <<"a", DOT, "b">>, PyInt(7)>> =>
         call.res = PyDict(S_a :> PyDict(S_b :> PyInt(7)))

\* what C6 says decode gives for a quoted literal: one quote off each end,
\* then every backslash-quote turned into a quote, backslashes otherwise kept
C6_StatedDecode(text) ==
  PyStr(Replace(SubSeq(text, 2, Len(text) - 1), <<BS, DQ>>, <<DQ>>))

\* C6: for every text that starts and ends with a double quote, decode strips
\* exactly one quote from each end, replaces each backslash-quote by a quote,
\* leaves doubled backslashes doubled, and returns a string.
C6_DecodeQuoted ==
  (/\ call.fn = "parse_value"
   /\ StartsWith(call.args[1], <<DQ>>)
   /\ EndsWith(call.args[1], <<DQ>>))
  => call.res = C6_StatedDecode(call.args[1])

\* the source lines of the first cell of the document a synapse_read call read
C7_Source == call.args[1].v[K_properties].v[K_cells].v[1].v[K_source].v

\* a line without the newlines at its end
C7_Bare(line) == RStrip(line.v, {NL})

\* the source lines, each ended by exactly one newline, one after the other
C7_OneNewlineEach(source) ==
  IF source = <<>> THEN <<>>
  ELSE Join([i \in 1..Len(source) |-> C7_Bare(source[i])], <<NL>>) \o <<NL>>

\* a text without the blank lines at its end
C7_NoTrailingBlank(text) ==
  IF RStrip(text, {NL}) = <<>> THEN <<>> ELSE RStrip(text, {NL}) \o <<NL>>

\* C7 as stated: the contents the document reader gives a cell are its
\* source lines, each ending in one newline, with the trailing blank lines
\* removed; ["x\n", "\n", "\n"] gives "x\n".
C7_ReaderTrims ==
  (call.fn = "synapse_read" /\ ~IsRaise(call.res)) =>
    call.res.cells[1].contents = C7_NoTrailingBlank(C7_OneNewlineEach(C7_Source))

\* C7 as the code has it: the contents the document reader gives a cell are
\* its source lines one after the other, the newlines at the end of each
\* replaced by exactly one, and trailing blank lines are kept;
\* ["x\n", "\n", "\n"] gives "x\n\n\n".
C7_ReaderKeepsBlankLines ==
  (call.fn = "synapse_read" /\ ~IsRaise(call.res)) =>
    /\ call.res.cells[1].contents = C7_OneNewlineEach(C7_Source)
    /\ C7_Source = <<PyStr(S_x_nl), PyStr(S_nl), PyStr(S_nl)>> =>
         call.res.cells[1].contents = <<"x", NL, NL, NL>>

\* the reader was given ["x\n", "\n", "\n"] and returned a model
C7_Witness ==
  /\ call.fn = "synapse_read"
  /\ ~IsRaise(call.res)
  /\ C7_Source = <<PyStr(S_x_nl), PyStr(S_nl), PyStr(S_nl)>>

\* the lines of the text a scratch_read call read
C8_Lines == Split(call.args[1], NL)

\* a line that begins with @ and whose directive name, line[1:line.find(' ')]
\* lowercased, is neither cell nor meta
C8_Unrecognized(line) ==
  /\ StartsWith(line, <<"@">>)
  /\ Lower(PySlice(line, 1, Find(line, SP, 0))) \notin {W_cell, W_meta}

\* the text without its i-th line
C8_Without(lines, i) ==
  Join(SubSeq(lines, 1, i - 1) \o SubSeq(lines, i + 1, Len(lines)), <<NL>>)

\* the text before its i-th line
C8_Before(lines, i) == Join(SubSeq(lines, 1, i - 1), <<NL>>)

\* C8 as stated: an unrecognized directive line changes nothing: the model
\* read is the one read from the text without that line.
C8_UnrecognizedIgnored ==
  call.fn = "scratch_read" =>
    \A i \in 1..Len(C8_Lines) :
      C8_Unrecognized(C8_Lines[i]) =>
        call.res = ScratchRead(C8_Without(C8_Lines, i))

\* C8 as the code has it: an unrecognized directive line is taken as a line
\* of the open cell.  Against the text without that line, the name, the
\* properties, the number of cells and every cell's type and tags are the
\* same, and so are the contents of every cell but the one open at that
\* line, whose contents hold the line and a newline where the line stood;
\* with no cell open nothing changes.
C8_UnrecognizedIsCellText ==
  call.fn = "scratch_read" =>
    \A i \in 1..Len(C8_Lines) :
      C8_Unrecognized(C8_Lines[i]) =>
        LET without == ScratchRead(C8_Without(C8_Lines, i))
            open == IF i = 1 THEN 0 ELSE Len(ScratchRead(C8_Before(C8_Lines, i)).cells)
            at == IF open = 0 THEN 0
                  ELSE Len(ScratchRead(C8_Before(C8_Lines, i)).cells[open].contents)
        IN /\ call.res.name = without.name
           /\ call.res.properties = without.properties
           /\ Len(call.res.cells) = Len(without.cells)
           /\ \A j \in 1..Len(without.cells) :
                /\ call.res.cells[j].cell_type = without.cells[j].cell_type
                /\ call.res.cells[j].attributes = without.cells[j].attributes
                /\ call.res.cells[j].contents =
                     IF j = open
                     THEN SubSeq(without.cells[j].contents, 1, at)
                          \o C8_Lines[i] \o <<NL>>
                          \o SubSeq(without.cells[j].contents, at + 1,
                                    Len(without.cells[j].contents))
                     ELSE without.cells[j].contents

\* a text was read in which an unrecognized directive line follows a @cell line
C8_Witness ==
  /\ call.fn = "scratch_read"
  /\ \E i \in 2..Len(C8_Lines) :
       /\ C8_Lines[i] = R_foo
       /\ C8_Lines[i - 1] = R_cell
  /\ Len(call.res.cells) > 0

(***************************************************************************)
(* The claims about push and pull, checked under Spec.                     *)
(***************************************************************************)

\* the absolute path each argument of the model stands for
AbsoluteOf(arg) ==
  CASE arg = <<"..", "w", "n.txt">> -> <<"/", "w", "n.txt">>
    [] arg = <<".", "d.json">> -> <<"/", "w", "d.json">>
    [] arg = <<"/", "w", "e.json">> -> <<"/", "w", "e.json">>

\* the paths push may write in a document: the name, the four recognized
\* metadata paths and the cells
RecognizedPaths ==
  {<<K_name>>,
   <<K_properties, K_folder, K_name>>,
   <<K_properties, K_nbformat>>,
   <<K_properties, K_nbformat_minor>>,
   <<K_properties, K_metadata, K_language_info, K_name>>,
   <<K_properties, K_cells>>}

\* path leads towards a recognized path without being one
LeadsToRecognized(path) ==
  \E r \in RecognizedPaths : Len(path) < Len(r) /\ SubSeq(r, 1, Len(path)) = path

RECURSIVE SameOutside(_, _, _)
\* before and after, the values at path, differ only at recognized paths:
\* no key is lost, every new key lies on a recognized path, and every value
\* off the recognized paths is identical
SameOutside(before, after, path) ==
  IF path \in RecognizedPaths THEN TRUE
  ELSE IF LeadsToRecognized(path) /\ before.k = "map" /\ after.k = "map"
  THEN /\ DOMAIN before.v \subseteq DOMAIN after.v
       /\ \A key \in (DOMAIN after.v) \ (DOMAIN before.v) :
            Append(path, key) \in RecognizedPaths \/ LeadsToRecognized(Append(path, key))
       /\ \A key \in DOMAIN before.v :
            SameOutside(before.v[key], after.v[key], Append(path, key))
  ELSE before = after

\* the cells of a document, and a cell's tags wherever the cell keeps them
CellsOf(doc) == doc.v[K_properties].v[K_cells].v
TagsOf(cell) ==
  IF HasKey(cell, K_metadata) /\ HasKey(cell.v[K_metadata], K_tags)
  THEN cell.v[K_metadata].v[K_tags]
  ELSE DictGet(cell, K_tags, PyList(<<>>))

\* a document has the four recognized metadata values set and cells with tags
C1_Covered(doc) ==
  /\ doc.k = "map" /\ HasKey(doc, K_name) /\ HasKey(doc, K_properties)
  /\ doc.v[K_properties].k = "map"
  /\ \A i \in 1..Len(meta_properties) :
       get_property_by_path(doc.v[K_properties], meta_properties[i][2]) # PyNone
  /\ HasKey(doc.v[K_properties], K_cells)
  /\ CellsOf(doc) # <<>>
  /\ \A i \in 1..Len(CellsOf(doc)) : TagsOf(CellsOf(doc)[i]).v # <<>>

\* C1: pull then push of a document with the four recognized metadata values
\* set and tagged cells leaves the document with the same name, the same four
\* values, the same cells in type, source lines and tags, and every field
\* outside the recognized paths unchanged.
C1_RoundTrip ==
  (/\ last.op = "pull" /\ last.error = ""
   /\ C1_Covered(fs[P_doc].data))
  => LET doc == fs[P_doc].data
         r == push_notebook(fs, last.location, last.src)
         back == r.fs[P_doc].data
     IN /\ r.out.error = ""
        /\ back.v[K_name] = doc.v[K_name]
        /\ \A i \in 1..Len(meta_properties) :
             get_property_by_path(back.v[K_properties], meta_properties[i][2])
               = get_property_by_path(doc.v[K_properties], meta_properties[i][2])
        /\ Len(CellsOf(back)) = Len(CellsOf(doc))
        /\ \A i \in 1..Len(CellsOf(doc)) :
             /\ CellsOf(back)[i].v[K_cell_type] = CellsOf(doc)[i].v[K_cell_type]
             /\ CellsOf(back)[i].v[K_source] = CellsOf(doc)[i].v[K_source]
             /\ TagsOf(CellsOf(back)[i]) = TagsOf(CellsOf(doc)[i])
        /\ SameOutside(doc, back, <<>>)

\* C2: a push onto an existing document changes only the name, the recognized
\* metadata paths and the cells: every other key and value of the document is
\* the same afterwards, whatever the text, and no other file changes.
C2_MergeKeepsTheRest ==
  (last.op = "push" /\ Exists(pre, AbsoluteOf(last.src))) =>
    /\ DOMAIN fs = DOMAIN pre
    /\ \A p \in DOMAIN pre : p # AbsoluteOf(last.src) => fs[p] = pre[p]
    /\ fs[AbsoluteOf(last.src)].type = "json"
    /\ SameOutside(pre[AbsoluteOf(last.src)].data, fs[AbsoluteOf(last.src)].data, <<>>)

\* a push of a text with the unrecognized key custom rewrote a document that
\* has fields of its own at the top and beside the recognized paths
C2_Witness ==
  /\ last.op = "push" /\ last.error = ""
  /\ Exists(pre, P_doc) /\ Exists(pre, P_text)
  /\ pre[P_doc].data.k = "map"
  /\ HasKey(pre[P_doc].data, K_custom)
  /\ HasKey(pre[P_doc].data, K_properties)
  /\ pre[P_doc].data.v[K_properties].k = "map"
  /\ HasKey(pre[P_doc].data.v[K_properties], K_folder)
  /\ pre[P_doc].data.v[K_properties].v[K_folder].k = "map"
  /\ HasKey(pre[P_doc].data.v[K_properties].v[K_folder], K_id)
  /\ \E i \in 1..Len(ScratchRead(pre[P_text].data).properties) :
       ScratchRead(pre[P_text].data).properties[i][1] = K_custom
  /\ fs[P_doc] # pre[P_doc]

\* C3: a pull whose document is missing and a push whose text is missing
\* raise the not-found error citing the absolute path of the missing file,
\* and leave every file as it was.
C3_NotFoundBeforeAnyWrite ==
  /\ (last.op = "pull" /\ ~Exists(pre, AbsoluteOf(last.src))) =>
       /\ last.error = "WorkbenchError"
       /\ last.message = AbsoluteOf(last.src)
       /\ fs = pre
  /\ (last.op = "push" /\ ~Exists(pre, AbsoluteOf(last.location))) =>
       /\ last.error = "WorkbenchError"
       /\ last.message = AbsoluteOf(last.location)
       /\ fs = pre

\* a pull named a missing document by a relative path while the text exists
C3_Witness ==
  /\ last.op = "pull"
  /\ last.src = <<".", "d.json">>
  /\ ~Exists(pre, P_doc)
  /\ Exists(pre, P_text)
  /\ last.error = "WorkbenchError"

\* C4: a push of an existing text to a document that does not exist ends
\* without error and creates the document from the default skeleton, with
\* the name and the cells of the text in it.
C4_PushCreatesDocument ==
  (/\ last.op = "push"
   /\ Exists(pre, AbsoluteOf(last.location))
   /\ ~Exists(pre, AbsoluteOf(last.src)))
  => /\ last.error = ""
     /\ Exists(fs, AbsoluteOf(last.src))
     /\ fs[AbsoluteOf(last.src)].data.k = "map"
     /\ HasKey(fs[AbsoluteOf(last.src)].data, K_name)
     /\ HasKey(fs[AbsoluteOf(last.src)].data, K_properties)
     /\ HasKey(fs[AbsoluteOf(last.src)].data.v[K_properties], K_cells)

\* the name of the document a pull read, and the first line it wrote
C9_Name == DictGet(pre[AbsoluteOf(last.src)].data, K_name, PyNone)
C9_Text == fs[AbsoluteOf(last.location)].data
C9_FirstLine == Split(C9_Text, NL)[1]
C9_Prefix == <<"@","m","e","t","a",SP,"n","a","m","e",SP>>

\* C9 as stated: the first line of the text written is @meta name and the
\* encoded name; an absent name is written as the encoding of the empty
\* string, and reads back as the empty string.
C9_AbsentNameWrittenEmpty ==
  (last.op = "pull" /\ last.error = "") =>
    /\ C9_Name # PyNone => C9_FirstLine = C9_Prefix \o value_str(C9_Name)
    /\ C9_Name = PyNone =>
         /\ C9_FirstLine = C9_Prefix \o <<DQ, DQ>>
         /\ ScratchRead(C9_Text).name = PyStr(<<>>)

\* C9 as the code has it: the first line of the text written is @meta name
\* and the encoded name; an absent name is written as the word None, with no
\* fallback to the empty string, and reads back as an absent name.
C9_AbsentNameWrittenNone ==
  (last.op = "pull" /\ last.error = "") =>
    /\ C9_Name # PyNone => C9_FirstLine = C9_Prefix \o value_str(C9_Name)
    /\ C9_Name = PyNone =>
         /\ C9_FirstLine = C9_Prefix \o <<"N", "o", "n", "e">>
         /\ ScratchRead(C9_Text).name = PyNone

\* a pull wrote the text of a document that has no name
C9_Witness ==
  /\ last.op = "pull" /\ last.error = ""
  /\ ~HasKey(pre[P_doc].data, K_name)
  /\ Exists(fs, P_text)

\* C10: after a push onto an existing document has succeeded, the same push
\* again succeeds and leaves the document, and every file, as it is.
C10_PushIdempotent ==
  (last.op = "push" /\ last.error = "" /\ Exists(pre, AbsoluteOf(last.src))) =>
    /\ push_notebook(fs, last.location, last.src).out.error = ""
    /\ push_notebook(fs, last.location, last.src).fs = fs

\* a push changed a document that had cells, with a text that has cells
C10_Witness ==
  /\ last.op = "push" /\ last.error = ""
  /\ Exists(pre, P_doc)
  /\ fs[P_doc] # pre[P_doc]
  /\ HasKey(pre[P_doc].data, K_properties)
  /\ HasKey(pre[P_doc].data.v[K_properties], K_cells)
  /\ CellsOf(pre[P_doc].data) # <<>>
  /\ CellsOf(fs[P_doc].data) # <<>>

====
